---- MODULE Spec2Model ----
(***************************************************************************)
(* State-machine model of the two build orchestrators of APUI-Scripts:     *)
(*   cdp_frontend.py  (Chrome DevTools frontend builder), prog = "cdp"     *)
(*   v8_workspace.py  (V8 builder),                       prog = "v8"      *)
(* One run of one script is one behaviour.  External commands are the      *)
(* environment: each launched command ends with an outcome drawn from      *)
(* Outcomes.  Filesystem calls made by the scripts themselves (makedirs,   *)
(* exists, rmtree) are taken to succeed.                                   *)
(*                                                                         *)
(* Text is modelled as a sequence of chunks: the chunk " " is one          *)
(* whitespace character, "#" is the comment character, any other chunk is  *)
(* a run of non-blank characters not starting with '#'.                    *)
(***************************************************************************)
EXTENDS Integers, Sequences, FiniteSets, TLC

\* ---- bounds of the model ------------------------------------------------
MaxExitCode == 2      \* failing commands exit with a code in 1..MaxExitCode
MaxLines == 2         \* override files of at most MaxLines lines (SpecArgs)
MaxLineLen == 2       \* override lines of at most MaxLineLen chunks (SpecArgs)

VARIABLES
  prog,            \* which script runs: "cdp" | "v8"
  is_windows,      \* platform.system() == "Windows" / sys.platform == "win32"
  is_admin,        \* v8: administrator privileges (read on Windows only)
  args,            \* v8: parsed command line
  file,            \* v8: the override file on disk, [exists, lines]
  fs,              \* directories of the workspace that exist
  pc,              \* position of the script: a label or the command to run
  proc,            \* "idle" | "running": is an external process running
  launched,        \* sequence of the commands launched so far
  results,         \* outcomes of the finished commands, parallel to launched
  skipped,         \* markers the script reported as already existing
  environ_PATH,    \* os.environ["PATH"], a sequence of entries
  gn_args,         \* v8: the composed GN argument list
  build_target,    \* v8: ninja target
  build_succeeded, \* cdp: the flag of the same name
  cleaned,         \* cdp: shutil.rmtree of the workspace has run
  exit_status,     \* exit status of the script, -1 while it runs
  diag,            \* last diagnostic kind written by the script
  launch_env,      \* PATH each launched command was given, parallel to launched
  fs_before        \* directories that existed when the script was started

vars == <<prog, is_windows, is_admin, args, file, fs, pc, proc, launched,
          results, skipped, environ_PATH, gn_args, build_target,
          build_succeeded, cleaned, exit_status, diag, launch_env,
          fs_before>>

\* ---- text ----------------------------------------------------------------
WS == " "
Str(w) == <<w>>

RECURSIVE lstrip(_)
lstrip(s) == IF s # <<>> /\ Head(s) = WS THEN lstrip(Tail(s)) ELSE s

RECURSIVE rstrip(_)
rstrip(s) ==
  IF s # <<>> /\ s[Len(s)] = WS THEN rstrip(SubSeq(s, 1, Len(s) - 1)) ELSE s

strip(s) == rstrip(lstrip(s))

startswith_hash(s) == s # <<>> /\ Head(s) = "#"

\* ---- external commands ---------------------------------------------------
Outcomes ==
  [kind : {"ok"}, code : {0}] \cup
  [kind : {"fail"}, code : 1..MaxExitCode] \cup
  [kind : {"notfound"}, code : {0}]

CdpCommands ==
  {"git --version", "npm --version", "git clone", "which gclient",
   "which fetch", "which npm", "which gn", "which autoninja",
   "fetch devtools-frontend", "npm install", "gn gen", "autoninja"}

V8Commands ==
  {"git clone", "gclient", "fetch v8", "git remote get-url",
   "git remote set-url", "git remote add", "git fetch fork",
   "git checkout fork", "git checkout tag", "gclient sync", "gn gen",
   "ninja"}

Commands == CdpCommands \cup V8Commands

\* The directory a command creates in the workspace.
Creates(cmd) ==
  CASE cmd = "git clone" -> {"depot_tools"}
    [] cmd \in {"fetch v8", "fetch devtools-frontend"} -> {"src"}
    [] cmd = "gn gen" -> {"out"}
    [] OTHER -> {}

\* Return code of a command started through the shell: a missing executable
\* is reported by the shell itself as a nonzero code.
ShellReturnCode(o, win) ==
  CASE o.kind = "ok" -> 0
    [] o.kind = "fail" -> o.code
    [] OTHER -> IF win THEN 1 ELSE 127

\* ---- workspace -----------------------------------------------------------
Parent(d, p) ==
  CASE d = "depot_tools" -> "root"
    [] d = "devtools" -> "root"
    [] d = "src" -> IF p = "cdp" THEN "devtools" ELSE "root"
    [] d = "out" -> "src"
    [] OTHER -> "root"

Dirs(p) ==
  IF p = "cdp" THEN {"root", "depot_tools", "devtools", "src", "out"}
  ELSE {"root", "depot_tools", "src", "out"}

\* os.path.exists of a workspace directory.
exists_never(dirs, d) == FALSE

exists(dirs, d) == d \in dirs

InitialWorkspaces(p) ==
  {w \in SUBSET Dirs(p) : \A d \in w : Parent(d, p) \in w}

\* ---- command line of v8_workspace ---------------------------------------
ArgsSpace ==
  [build_type : {"static", "dll"}, config : {"release", "debug"},
   gn_args_file : BOOLEAN, v8_fork_url : BOOLEAN, msvc : BOOLEAN,
   no_rust : BOOLEAN]

DefaultArgs ==
  [build_type |-> "static", config |-> "release", gn_args_file |-> FALSE,
   v8_fork_url |-> FALSE, msvc |-> FALSE, no_rust |-> FALSE]

NoFile == [exists |-> FALSE, lines |-> <<>>]

\* Override files used by the pipeline specification.
SampleFiles ==
  { << Str("v8_enable_i18n_support=false"), <<>> >>,
    << <<"#", WS, "is_component_build=true">>,
       <<WS, "is_component_build=true", WS>>,
       Str("v8_monolithic=false") >> }

\* Override files used by the argument-composition specification.
Chunks == {WS, "#", "v8_enable_i18n_support=false"}

Lines == UNION {[1..n -> Chunks] : n \in 0..MaxLineLen}

Files == UNION {[1..n -> Lines] : n \in 0..MaxLines}


\* ---- initial states ------------------------------------------------------
Ok == [kind |-> "ok", code |-> 0]

Init ==
  /\ prog \in {"cdp", "v8"}
  /\ is_windows \in BOOLEAN
  /\ is_admin \in (IF prog = "v8" /\ is_windows THEN BOOLEAN ELSE {TRUE})
  /\ args \in (IF prog = "v8" THEN ArgsSpace ELSE {DefaultArgs})
  /\ file \in (IF args.gn_args_file
               THEN {NoFile} \cup {[exists |-> TRUE, lines |-> l] : l \in SampleFiles}
               ELSE {NoFile})
  /\ fs \in InitialWorkspaces(prog)
  /\ fs_before = fs
  /\ launch_env = <<>>
  /\ pc = "start"
  /\ proc = "idle"
  /\ launched = <<>>
  /\ results = <<>>
  /\ skipped = {}
  /\ environ_PATH = <<"inherited">>
  /\ gn_args = <<>>
  /\ build_target = "unset"
  /\ build_succeeded = FALSE
  /\ cleaned = FALSE
  /\ exit_status = -1
  /\ diag = "none"

\* ---- starting and ending an external process ----------------------------
\* subprocess.Popen / check_output / run: the command at pc is started.
Popen ==
  /\ proc = "idle"
  /\ pc \in Commands
  /\ proc' = "running"
  /\ launched' = Append(launched, pc)
  /\ launch_env' = Append(launch_env, environ_PATH)
  /\ UNCHANGED <<fs_before, prog, is_windows, is_admin, args, file, fs, pc, results,
                 skipped, environ_PATH, gn_args, build_target,
                 build_succeeded, cleaned, exit_status, diag>>

\* What the finished command leaves in the workspace: its directory when it
\* succeeded, possibly a partial one when it failed.
AfterCommand(dirs, cmd, o, partial) ==
  IF o.kind = "ok" \/ (partial /\ o.kind = "fail")
  THEN dirs \cup Creates(cmd)
  ELSE dirs

\* ---- cdp_frontend.py -----------------------------------------------------
\* run_command: "return" when the command succeeded, "raise" otherwise
\* (CalledProcessError on a nonzero return code, FileNotFoundError when the
\* executable is missing and no shell is used).
cdp_run_command_swallow(o, win) == "return"

cdp_run_command(o, win) ==
  IF o.kind = "notfound" /\ ~win THEN "raise"
  ELSE IF ShellReturnCode(o, win) # 0 THEN "raise"
  ELSE "return"

\* The statement of main() that follows each command.
CdpNext(cmd) ==
  CASE cmd = "git --version" -> "npm --version"
    [] cmd = "npm --version" -> "check_depot_tools"
    [] cmd = "git clone" -> "setup_env"
    [] cmd = "which gclient" -> "which fetch"
    [] cmd = "which fetch" -> "which npm"
    [] cmd = "which npm" -> "which gn"
    [] cmd = "which gn" -> "which autoninja"
    [] cmd = "which autoninja" -> "check_frontend"
    [] cmd = "fetch devtools-frontend" -> "npm install"
    [] cmd = "npm install" -> "gn gen"
    [] cmd = "gn gen" -> "autoninja"
    [] cmd = "autoninja" -> "success"
    [] OTHER -> "finally"

CdpMakeWorkspace ==
  /\ prog = "cdp" /\ pc = "start"
  /\ fs' = fs \cup {"root"}
  /\ pc' = "git --version"
  /\ UNCHANGED <<fs_before, launch_env, prog, is_windows, is_admin, args, file, proc, launched,
                 results, skipped, environ_PATH, gn_args, build_target,
                 build_succeeded, cleaned, exit_status, diag>>

CdpRunCommandExit ==
  /\ prog = "cdp" /\ proc = "running"
  /\ \E o \in Outcomes, partial \in BOOLEAN :
       /\ partial => (o.kind = "fail" /\ Creates(pc) # {})
       /\ results' = Append(results, o)
       /\ fs' = AfterCommand(fs, pc, o, partial)
       /\ IF cdp_run_command(o, is_windows) = "raise"
          THEN pc' = "finally" /\ diag' = "command_failed"
          ELSE pc' = CdpNext(pc) /\ diag' = diag
  /\ proc' = "idle"
  /\ UNCHANGED <<fs_before, launch_env, prog, is_windows, is_admin, args, file, launched, skipped,
                 environ_PATH, gn_args, build_target, build_succeeded,
                 cleaned, exit_status>>

\* KeyboardInterrupt while run_command waits for the process: neither
\* except clause catches it, the finally block of main runs.
Interrupted == [kind |-> "interrupted", code |-> 0]

CdpInterrupt ==
  /\ prog = "cdp" /\ proc = "running"
  /\ \E partial \in BOOLEAN :
       /\ partial => Creates(pc) # {}
       /\ fs' = IF partial THEN fs \cup Creates(pc) ELSE fs
  /\ results' = Append(results, Interrupted)
  /\ proc' = "idle"
  /\ pc' = "finally"
  /\ UNCHANGED <<fs_before, launch_env, prog, is_windows, is_admin, args,
                 file, launched, skipped, environ_PATH, gn_args,
                 build_target, build_succeeded, cleaned, exit_status, diag>>

CdpBootstrapStage ==
  /\ prog = "cdp" /\ pc = "check_depot_tools"
  /\ IF ~exists(fs, "depot_tools")
     THEN pc' = "git clone" /\ skipped' = skipped
     ELSE pc' = "setup_env" /\ skipped' = skipped \cup {"depot_tools"}
  /\ UNCHANGED <<fs_before, launch_env, prog, is_windows, is_admin, args, file, fs, proc, launched,
                 results, environ_PATH, gn_args, build_target,
                 build_succeeded, cleaned, exit_status, diag>>

\* depot_tools_dir + os.pathsep + os.environ["PATH"]
prepend_path(path) == <<"depot_tools">> \o path

CdpSetupEnv ==
  /\ prog = "cdp" /\ pc = "setup_env"
  /\ environ_PATH' = prepend_path(environ_PATH)
  /\ pc' = "which gclient"
  /\ UNCHANGED <<fs_before, launch_env, prog, is_windows, is_admin, args, file, fs, proc, launched,
                 results, skipped, gn_args, build_target, build_succeeded,
                 cleaned, exit_status, diag>>

CdpFetchStage ==
  /\ prog = "cdp" /\ pc = "check_frontend"
  /\ fs' = fs \cup {"devtools"}
  /\ IF ~exists(fs, "src")
     THEN pc' = "fetch devtools-frontend" /\ skipped' = skipped
     ELSE pc' = "npm install" /\ skipped' = skipped \cup {"src"}
  /\ UNCHANGED <<fs_before, launch_env, prog, is_windows, is_admin, args, file, proc, launched,
                 results, environ_PATH, gn_args, build_target,
                 build_succeeded, cleaned, exit_status, diag>>

CdpBuildSucceeded ==
  /\ prog = "cdp" /\ pc = "success"
  /\ build_succeeded' = TRUE
  /\ pc' = "finally"
  /\ UNCHANGED <<fs_before, launch_env, prog, is_windows, is_admin, args, file, fs, proc, launched,
                 results, skipped, environ_PATH, gn_args, build_target,
                 cleaned, exit_status, diag>>

\* shutil.rmtree(workspace_dir): everything under the root goes with it.
rmtree_own_only(dirs) == dirs \cap fs_before

rmtree(dirs) == {}

CdpTeardown ==
  /\ prog = "cdp" /\ pc = "finally" /\ ~build_succeeded
  /\ fs' = rmtree(fs)
  /\ cleaned' = TRUE
  /\ pc' = "sys_exit"
  /\ UNCHANGED <<fs_before, launch_env, prog, is_windows, is_admin, args, file, proc, launched,
                 results, skipped, environ_PATH, gn_args, build_target,
                 build_succeeded, exit_status, diag>>

CdpSysExit ==
  /\ prog = "cdp" /\ pc = "sys_exit"
  /\ exit_status' = 1
  /\ pc' = "done"
  /\ UNCHANGED <<fs_before, launch_env, prog, is_windows, is_admin, args, file, fs, proc, launched,
                 results, skipped, environ_PATH, gn_args, build_target,
                 build_succeeded, cleaned, diag>>

CdpReturn ==
  /\ prog = "cdp" /\ pc = "finally" /\ build_succeeded
  /\ exit_status' = 0
  /\ pc' = "done"
  /\ UNCHANGED <<fs_before, launch_env, prog, is_windows, is_admin, args, file, fs, proc, launched,
                 results, skipped, environ_PATH, gn_args, build_target,
                 build_succeeded, cleaned, diag>>

\* ---- v8_workspace.py -----------------------------------------------------
\* run_command: the status the script exits with, 0 when it goes on.  Every
\* command goes through the shell, so a missing executable arrives as the
\* shell's return code.
v8_run_command(o, win) == ShellReturnCode(o, win)

\* The statement of main() that follows each command run by run_command.
V8Next(cmd) ==
  CASE cmd = "git clone" -> "setup_env"
    [] cmd = "gclient" -> "check_v8"
    [] cmd = "fetch v8" -> "custom_fork"
    [] cmd = "git remote set-url" -> "git fetch fork"
    [] cmd = "git remote add" -> "git fetch fork"
    [] cmd = "git fetch fork" -> "git checkout fork"
    [] cmd = "git checkout fork" -> "gclient sync"
    [] cmd = "git checkout tag" -> "gclient sync"
    [] cmd = "gclient sync" -> "compose_args"
    [] cmd = "ninja" -> "success"
    [] OTHER -> "done"

\* check_admin_privileges
V8CheckAdmin ==
  /\ prog = "v8" /\ pc = "start"
  /\ IF is_windows /\ ~is_admin
     THEN pc' = "done" /\ exit_status' = 1 /\ diag' = "not_admin"
     ELSE pc' = "check_depot_tools" /\ UNCHANGED <<exit_status, diag>>
  /\ UNCHANGED <<fs_before, launch_env, prog, is_windows, is_admin, args, file, fs, proc, launched,
                 results, skipped, environ_PATH, gn_args, build_target,
                 build_succeeded, cleaned>>

V8BootstrapStage ==
  /\ prog = "v8" /\ pc = "check_depot_tools"
  /\ fs' = fs \cup {"root"}
  /\ IF ~exists(fs, "depot_tools")
     THEN pc' = "git clone" /\ skipped' = skipped
     ELSE pc' = "setup_env" /\ skipped' = skipped \cup {"depot_tools"}
  /\ UNCHANGED <<fs_before, launch_env, prog, is_windows, is_admin, args, file, proc, launched,
                 results, environ_PATH, gn_args, build_target,
                 build_succeeded, cleaned, exit_status, diag>>

V8SetupEnv ==
  /\ prog = "v8" /\ pc = "setup_env"
  /\ environ_PATH' = prepend_path(environ_PATH)
  /\ pc' = "gclient"
  /\ UNCHANGED <<fs_before, launch_env, prog, is_windows, is_admin, args, file, fs, proc, launched,
                 results, skipped, gn_args, build_target, build_succeeded,
                 cleaned, exit_status, diag>>

V8RunCommandExit ==
  /\ prog = "v8" /\ proc = "running"
  /\ pc \notin {"git remote get-url", "gn gen"}
  /\ \E o \in Outcomes, partial \in BOOLEAN :
       /\ partial => (o.kind = "fail" /\ Creates(pc) # {})
       /\ results' = Append(results, o)
       /\ fs' = AfterCommand(fs, pc, o, partial)
       /\ IF v8_run_command(o, is_windows) # 0
          THEN /\ pc' = "done"
               /\ exit_status' = v8_run_command(o, is_windows)
               /\ diag' = "command_failed"
          ELSE /\ pc' = V8Next(pc)
               /\ UNCHANGED <<exit_status, diag>>
  /\ proc' = "idle"
  /\ UNCHANGED <<fs_before, launch_env, prog, is_windows, is_admin, args, file, launched, skipped,
                 environ_PATH, gn_args, build_target, build_succeeded,
                 cleaned>>

\* KeyboardInterrupt while a command runs: "except Exception" does not catch
\* it, the interpreter ends with a traceback and the status of an
\* unhandled interrupt.
V8Interrupt ==
  /\ prog = "v8" /\ proc = "running"
  /\ \E partial \in BOOLEAN :
       /\ partial => Creates(pc) # {}
       /\ fs' = IF partial THEN fs \cup Creates(pc) ELSE fs
  /\ results' = Append(results, Interrupted)
  /\ proc' = "idle"
  /\ pc' = "done"
  /\ exit_status' = IF is_windows THEN -1073741510 ELSE 130
  /\ diag' = "traceback"
  /\ UNCHANGED <<fs_before, launch_env, prog, is_windows, is_admin, args,
                 file, launched, skipped, environ_PATH, gn_args,
                 build_target, build_succeeded, cleaned>>

V8FetchStage_skip_checkout ==
  /\ prog = "v8" /\ pc = "check_v8"
  /\ IF ~exists(fs, "src")
     THEN pc' = "fetch v8" /\ skipped' = skipped
     ELSE pc' = "compose_args" /\ skipped' = skipped \cup {"src"}
  /\ UNCHANGED <<fs_before, launch_env, prog, is_windows, is_admin, args,
                 file, fs, proc, launched, results, environ_PATH, gn_args,
                 build_target, build_succeeded, cleaned, exit_status, diag>>

V8FetchStage ==
  /\ prog = "v8" /\ pc = "check_v8"
  /\ IF ~exists(fs, "src")
     THEN pc' = "fetch v8" /\ skipped' = skipped
     ELSE pc' = "custom_fork" /\ skipped' = skipped \cup {"src"}
  /\ UNCHANGED <<fs_before, launch_env, prog, is_windows, is_admin, args, file, fs, proc, launched,
                 results, environ_PATH, gn_args, build_target,
                 build_succeeded, cleaned, exit_status, diag>>

V8CustomFork ==
  /\ prog = "v8" /\ pc = "custom_fork"
  /\ pc' = IF args.v8_fork_url THEN "git remote get-url" ELSE "git checkout tag"
  /\ UNCHANGED <<fs_before, launch_env, prog, is_windows, is_admin, args, file, fs, proc, launched,
                 results, skipped, environ_PATH, gn_args, build_target,
                 build_succeeded, cleaned, exit_status, diag>>

\* subprocess.check_output of the probe, inside try/except CalledProcessError:
\* the statement that follows, or "uncaught" for an exception that escapes.
v8_probe(o) ==
  CASE o.kind = "ok" -> "git remote set-url"
    [] o.kind = "fail" -> "git remote add"
    [] OTHER -> "uncaught"

V8ProbeExit ==
  /\ prog = "v8" /\ proc = "running" /\ pc = "git remote get-url"
  /\ \E o \in Outcomes :
       /\ results' = Append(results, o)
       /\ IF v8_probe(o) = "uncaught"
          THEN pc' = "done" /\ exit_status' = 1 /\ diag' = "traceback"
          ELSE pc' = v8_probe(o) /\ UNCHANGED <<exit_status, diag>>
  /\ proc' = "idle"
  /\ UNCHANGED <<fs_before, launch_env, prog, is_windows, is_admin, args, file, fs, launched,
                 skipped, environ_PATH, gn_args, build_target,
                 build_succeeded, cleaned>>

\* The computed GN arguments, before any override line.
LinkModeArgs_inverted(build_type) ==
  IF build_type = "static"
  THEN <<Str("is_component_build=true"), Str("v8_monolithic=false")>>
  ELSE <<Str("is_component_build=false"), Str("v8_monolithic=true")>>

LinkModeArgs(build_type) ==
  IF build_type = "static"
  THEN <<Str("is_component_build=false"), Str("v8_monolithic=true")>>
  ELSE <<Str("is_component_build=true"), Str("v8_monolithic=false")>>

BuildTarget(build_type) ==
  IF build_type = "static" THEN "v8_monolithic" ELSE "v8"

ToolchainArgs(win, msvc) ==
  IF win /\ msvc THEN <<Str("is_clang=false"), Str("v8_win_clang=false")>>
  ELSE IF ~win THEN <<Str("is_clang=true")>>
  ELSE <<>>

ComputedArgs(a, win) ==
  << Str(IF a.config = "debug" THEN "is_debug=true" ELSE "is_debug=false"),
     Str("target_cpu=\"\"x64\"\""),
     Str("v8_use_external_startup_data=false"),
     Str("treat_warnings_as_errors=false") >>
  \o (IF a.no_rust THEN <<Str("v8_enable_rust=false")>> ELSE <<>>)
  \o LinkModeArgs(a.build_type)
  \o ToolchainArgs(win, a.msvc)

V8ComposeArgs ==
  /\ prog = "v8" /\ pc = "compose_args"
  /\ gn_args' = ComputedArgs(args, is_windows)
  /\ build_target' = BuildTarget(args.build_type)
  /\ pc' = "read_overrides"
  /\ UNCHANGED <<fs_before, launch_env, prog, is_windows, is_admin, args, file, fs, proc, launched,
                 results, skipped, environ_PATH, build_succeeded, cleaned,
                 exit_status, diag>>

\* The loop over the lines of the override file.
KeepLine_any_text(line) == line # <<>>

KeepLine(line) == line # <<>> /\ ~startswith_hash(line)

RECURSIVE ReadOverrideLines(_, _)
ReadOverrideLines(acc, lines) ==
  IF lines = <<>> THEN acc
  ELSE LET line == strip(Head(lines))
       IN ReadOverrideLines(IF KeepLine(line) THEN Append(acc, line) ELSE acc,
                            Tail(lines))

\* (variants of the step used to test the properties below)
V8ReadOverrides_only_after_fetch ==
  /\ prog = "v8" /\ pc = "read_overrides"
  /\ gn_args' = IF args.gn_args_file /\ file.exists /\ "src" \notin skipped
                THEN ReadOverrideLines(gn_args, file.lines)
                ELSE gn_args
  /\ pc' = "gn gen"
  /\ UNCHANGED <<fs_before, launch_env, prog, is_windows, is_admin, args,
                 file, fs, proc, launched, results, skipped, environ_PATH,
                 build_target, build_succeeded, cleaned, exit_status, diag>>

V8ReadOverrides_open_unchecked ==
  /\ prog = "v8" /\ pc = "read_overrides"
  /\ IF args.gn_args_file /\ ~file.exists
     THEN pc' = "done" /\ exit_status' = 1 /\ diag' = "traceback"
          /\ gn_args' = gn_args
     ELSE /\ gn_args' = IF args.gn_args_file
                        THEN ReadOverrideLines(gn_args, file.lines)
                        ELSE gn_args
          /\ pc' = "gn gen" /\ UNCHANGED <<exit_status, diag>>
  /\ UNCHANGED <<fs_before, launch_env, prog, is_windows, is_admin, args,
                 file, fs, proc, launched, results, skipped, environ_PATH,
                 build_target, build_succeeded, cleaned>>

V8ReadOverrides ==
  /\ prog = "v8" /\ pc = "read_overrides"
  /\ gn_args' = IF args.gn_args_file /\ file.exists
                THEN ReadOverrideLines(gn_args, file.lines)
                ELSE gn_args
  /\ pc' = "gn gen"
  /\ UNCHANGED <<fs_before, launch_env, prog, is_windows, is_admin, args, file, fs, proc, launched,
                 results, skipped, environ_PATH, build_target,
                 build_succeeded, cleaned, exit_status, diag>>

\* subprocess.run(gn_command_str, check=True, shell=True): "raise" for the
\* CalledProcessError of a nonzero return code, which nothing catches.
v8_gn_gen_unchecked(o, win) == "return"

v8_gn_gen(o, win) == IF ShellReturnCode(o, win) # 0 THEN "raise" ELSE "return"

V8GnGenExit ==
  /\ prog = "v8" /\ proc = "running" /\ pc = "gn gen"
  /\ \E o \in Outcomes, partial \in BOOLEAN :
       /\ partial => o.kind = "fail"
       /\ results' = Append(results, o)
       /\ fs' = AfterCommand(fs, pc, o, partial)
       /\ IF v8_gn_gen(o, is_windows) = "raise"
          THEN pc' = "done" /\ exit_status' = 1 /\ diag' = "traceback"
          ELSE pc' = "ninja" /\ UNCHANGED <<exit_status, diag>>
  /\ proc' = "idle"
  /\ UNCHANGED <<fs_before, launch_env, prog, is_windows, is_admin, args, file, launched, skipped,
                 environ_PATH, gn_args, build_target, build_succeeded,
                 cleaned>>

V8Completed ==
  /\ prog = "v8" /\ pc = "success"
  /\ exit_status' = 0
  /\ pc' = "done"
  /\ UNCHANGED <<fs_before, launch_env, prog, is_windows, is_admin, args, file, fs, proc, launched,
                 results, skipped, environ_PATH, gn_args, build_target,
                 build_succeeded, cleaned, diag>>

Next ==
  \/ Popen
  \/ CdpMakeWorkspace
  \/ CdpRunCommandExit
  \/ CdpInterrupt
  \/ CdpBootstrapStage
  \/ CdpSetupEnv
  \/ CdpFetchStage
  \/ CdpBuildSucceeded
  \/ CdpTeardown
  \/ CdpSysExit
  \/ CdpReturn
  \/ V8CheckAdmin
  \/ V8BootstrapStage
  \/ V8SetupEnv
  \/ V8RunCommandExit
  \/ V8Interrupt
  \/ V8FetchStage
  \/ V8CustomFork
  \/ V8ProbeExit
  \/ V8ComposeArgs
  \/ V8ReadOverrides
  \/ V8GnGenExit
  \/ V8Completed

Spec == Init /\ [][Next]_vars

\* ---- argument composition on its own ------------------------------------
\* v8_workspace.py at the start of step 4 of a first run without a fork,
\* for every command line and every override file within the bounds.
InitArgs ==
  /\ prog = "v8"
  /\ is_windows \in BOOLEAN
  /\ is_admin = TRUE
  /\ args \in {a \in ArgsSpace : ~a.v8_fork_url /\ a.config = "release"}
  /\ file \in (IF args.gn_args_file
               THEN {NoFile} \cup {[exists |-> TRUE, lines |-> l] : l \in Files}
               ELSE {NoFile})
  /\ fs = {"root", "depot_tools", "src"}
  /\ fs_before = {}
  /\ launch_env = << <<"inherited">>, <<"depot_tools", "inherited">>,
                     <<"depot_tools", "inherited">>,
                     <<"depot_tools", "inherited">>,
                     <<"depot_tools", "inherited">> >>
  /\ pc = "compose_args"
  /\ proc = "idle"
  /\ launched = <<"git clone", "gclient", "fetch v8", "git checkout tag",
                  "gclient sync">>
  /\ results = <<Ok, Ok, Ok, Ok, Ok>>
  /\ skipped = {}
  /\ environ_PATH = <<"depot_tools", "inherited">>
  /\ gn_args = <<>>
  /\ build_target = "unset"
  /\ build_succeeded = FALSE
  /\ cleaned = FALSE
  /\ exit_status = -1
  /\ diag = "none"

NextArgs == V8ComposeArgs \/ V8ReadOverrides

SpecArgs == InitArgs /\ [][NextArgs]_vars

\* ======================= properties =====================================
Range(q) == {q[i] : i \in 1..Len(q)}

\* The six stages of the pipeline; 0 is the check made before stage 1.
StageOf(cmd) ==
  CASE cmd \in {"git --version", "npm --version"} -> 0
    [] cmd = "git clone" -> 1
    [] cmd \in {"gclient", "which gclient", "which fetch", "which npm",
                "which gn", "which autoninja"} -> 2
    [] cmd \in {"fetch v8", "fetch devtools-frontend", "git remote get-url",
                "git remote set-url", "git remote add", "git fetch fork",
                "git checkout fork", "git checkout tag"} -> 3
    [] cmd \in {"gclient sync", "npm install"} -> 4
    [] cmd = "gn gen" -> 5
    [] OTHER -> 6

\* The i-th launched command has finished and failed its stage: it exited
\* nonzero or was not found.  A nonzero exit of the remote-alias probe is
\* the expected "not found" answer and fails nothing.
FailedAt(i) ==
  /\ i <= Len(results)
  /\ results[i].kind # "ok"
  /\ ~(launched[i] = "git remote get-url" /\ results[i].kind = "fail")

SomeStageFailed == \E i \in 1..Len(results) : FailedAt(i)

Terminated == pc = "done"

BuildCompleted ==
  /\ Len(results) > 0
  /\ launched[Len(results)] \in {"ninja", "autoninja"}
  /\ results[Len(results)].kind = "ok"

\* C1: whenever a stage command fails, the workspace root does not exist
\* when the process has terminated.
C1_NoWorkspaceAfterFailure ==
  (Terminated /\ SomeStageFailed) => "root" \notin fs

\* C2: a terminated run is in exactly one of ArtifactReady (all stages done,
\* root present, exit status 0) and CleanedUp (root removed); teardown never
\* runs while a command runs nor in a run whose stages all succeeded; no run
\* ends with a failed stage and the workspace present.  Runs refused by the
\* administrator check never enter the state machine.
ArtifactReady ==
  Terminated /\ BuildCompleted /\ "root" \in fs /\ exit_status = 0

CleanedUp == Terminated /\ "root" \notin fs

C2_TwoTerminalStates ==
  /\ (Terminated /\ diag # "not_admin") => (ArtifactReady # CleanedUp)
  /\ cleaned => (proc = "idle" /\ ~BuildCompleted)
  /\ (Terminated /\ SomeStageFailed) => CleanedUp

\* C3: exit status 0 exactly when every stage succeeded, and a nonzero exit
\* happens only after the teardown of the workspace has completed (runs
\* refused by the administrator check aside: they start no stage).
C3_ExitAfterCleanup ==
  (Terminated /\ diag # "not_admin") =>
    /\ (exit_status = 0) <=> BuildCompleted
    /\ exit_status # 0 => cleaned

\* C4: a stage command that exits with nonzero code c makes the script exit
\* with status c.
C4_ExitCodePropagated ==
  (Terminated /\ Len(results) > 0 /\ FailedAt(Len(results))
     /\ results[Len(results)].kind = "fail")
  => exit_status = results[Len(results)].code

\* C5 as stated: no command of a stage is launched in a run in which the
\* stage's marker was found to exist when the stage was reached.
MarkerOf(stage) ==
  CASE stage = 1 -> {"depot_tools"}
    [] stage = 3 -> {"src"}
    [] OTHER -> {}

C5_Original ==
  \A i \in 1..Len(launched) : MarkerOf(StageOf(launched[i])) \cap skipped = {}

\* C5 amended: the bootstrap clone and the source fetch are launched only
\* when their marker directory does not exist at that moment, and never in a
\* run that found the marker; the other commands have no marker.
MarkedCommands == {"git clone", "fetch v8", "fetch devtools-frontend"}

C5_CloneAndFetchSkipped ==
  /\ [](\A c \in MarkedCommands \cap Range(launched) :
          Creates(c) \cap skipped = {})
  /\ [][\A c \in MarkedCommands :
          launched' = Append(launched, c) => Creates(c) \cap fs = {}]_vars

C5_Witness ==
  /\ Terminated /\ exit_status = 0
  /\ skipped = {"depot_tools", "src"}
  /\ Len(launched) > 0

\* C6: a failed command is the last command launched in its run and was
\* launched exactly once.
C6_FailureAborts ==
  \A i \in 1..Len(results) :
    FailedAt(i) =>
      /\ i = Len(launched)
      /\ Cardinality({j \in 1..Len(launched) : launched[j] = launched[i]}) = 1

C6_Witness ==
  /\ Terminated /\ Len(launched) >= 3
  /\ FailedAt(Len(launched))
  /\ StageOf(launched[Len(launched)]) = 4

\* C7: commands are launched in stage order, each only after every command
\* launched before it has finished without failing, and compilation only
\* after build-file generation succeeded in the same run.
C7_StageOrder ==
  /\ Len(results) >= Len(launched) - 1
  /\ \A i, j \in 1..Len(launched) :
       i < j => (StageOf(launched[i]) <= StageOf(launched[j]) /\ ~FailedAt(i))
  /\ \A j \in 1..Len(launched) :
       StageOf(launched[j]) = 6 =>
         \E i \in 1..(j - 1) : launched[i] = "gn gen" /\ results[i].kind = "ok"

C7_Witness ==
  /\ Terminated /\ exit_status = 0 /\ skipped = {}
  /\ (1..6) \subseteq {StageOf(launched[i]) : i \in 1..Len(launched)}

\* C8: the bootstrap clone is launched only after the check of the external
\* tools (git, npm) has passed, and every fetch, sync, generate or compile
\* command only after the check of the toolchain tools has passed as well.
PassedBefore(cmds, j) ==
  \A c \in cmds : \E i \in 1..(j - 1) : launched[i] = c /\ results[i].kind = "ok"

C8_TwoPrerequisiteChecks ==
  \A j \in 1..Len(launched) :
    /\ StageOf(launched[j]) >= 1 =>
         PassedBefore({"git --version", "npm --version"}, j)
    /\ StageOf(launched[j]) >= 3 =>
         PassedBefore({"which gclient", "which fetch", "which gn",
                       "which autoninja"}, j)

\* ---- argument composition ------------------------------------------------
\* A line with the blanks at both ends removed, said without recursion.
NonBlank(l) == {i \in 1..Len(l) : l[i] # WS}

Min(S) == CHOOSE x \in S : \A y \in S : x <= y

Max(S) == CHOOSE x \in S : \A y \in S : x >= y

Trimmed(l) ==
  IF NonBlank(l) = {} THEN <<>>
  ELSE SubSeq(l, Min(NonBlank(l)), Max(NonBlank(l)))

IsOverrideToken(t) == t # <<>> /\ t[1] # "#"

\* The trimmed lines of the override file that are neither blank nor
\* comments, in file order.
ExpectedOverrides ==
  SelectSeq([i \in 1..Len(file.lines) |-> Trimmed(file.lines[i])],
            IsOverrideToken)

OverridesRead == pc = "gn gen" /\ args.gn_args_file /\ file.exists

\* C9: once the override file has been read, the argument list is the
\* computed arguments followed by exactly the trimmed non-blank, non-comment
\* lines of the file, in file order; no blank or '#' line is an argument.
C9_OverridesAreSuffix ==
  OverridesRead =>
    LET k == Len(gn_args) - Len(ExpectedOverrides)
    IN /\ k >= 0
       /\ SubSeq(gn_args, 1, k) = ComputedArgs(args, is_windows)
       /\ SubSeq(gn_args, k + 1, Len(gn_args)) = ExpectedOverrides
       /\ \A i \in 1..Len(gn_args) : IsOverrideToken(gn_args[i])
       /\ \A i \in 1..Len(gn_args) : gn_args[i] = Trimmed(gn_args[i])

C9_Witness ==
  /\ OverridesRead
  /\ file.lines = << <<WS, "#">>, <<"v8_enable_i18n_support=false", WS>> >>
  /\ gn_args[Len(gn_args)] = Str("v8_enable_i18n_support=false")
  /\ Len(gn_args) = Len(ComputedArgs(args, is_windows)) + 1

\* C10 as stated: the composed arguments hold exactly one link-mode pair,
\* the one selected by the link mode, the build target matches it, and the
\* always-present flags are there.
LinkModeTokens ==
  {Str("is_component_build=false"), Str("is_component_build=true"),
   Str("v8_monolithic=false"), Str("v8_monolithic=true")}

SelectedPair ==
  IF args.build_type = "static"
  THEN {Str("is_component_build=false"), Str("v8_monolithic=true")}
  ELSE {Str("is_component_build=true"), Str("v8_monolithic=false")}

SelectedTarget == IF args.build_type = "static" THEN "v8_monolithic" ELSE "v8"

AlwaysPresent ==
  {Str(IF args.config = "debug" THEN "is_debug=true" ELSE "is_debug=false"),
   Str("target_cpu=\"\"x64\"\""),
   Str("v8_use_external_startup_data=false"),
   Str("treat_warnings_as_errors=false")}

LinkModePositions == {i \in 1..Len(gn_args) : gn_args[i] \in LinkModeTokens}

ArgsComposed == prog = "v8" /\ pc \in {"gn gen", "ninja", "success", "done"}
                  /\ gn_args # <<>>

C10_Original ==
  ArgsComposed =>
    /\ {gn_args[i] : i \in LinkModePositions} = SelectedPair
    /\ Cardinality(LinkModePositions) = 2
    /\ build_target = SelectedTarget
    /\ AlwaysPresent \subseteq Range(gn_args)

\* C10 amended: before the override lines are appended the arguments hold
\* exactly one link-mode pair, the one selected by the link mode; it stays
\* in the final list, where override lines may add further link-mode
\* tokens; the build target matches the selected pair; the always-present
\* flags are the first four arguments of every configuration.
C10_OnePairBeforeOverrides ==
  (prog = "v8" /\ gn_args # <<>>) =>
    /\ SelectedPair \subseteq Range(gn_args)
    /\ pc = "read_overrides" =>
         /\ {gn_args[i] : i \in LinkModePositions} = SelectedPair
         /\ Cardinality(LinkModePositions) = 2
    /\ build_target = SelectedTarget
    /\ Len(gn_args) >= 4
    /\ {gn_args[i] : i \in 1..4} = AlwaysPresent

C10_Witness ==
  /\ Terminated /\ exit_status = 0 /\ launched[Len(launched)] = "ninja"
  /\ args.build_type = "static" /\ build_target = "v8_monolithic"
  /\ Str("is_component_build=true") \in Range(gn_args)
  /\ Str("v8_monolithic=false") \in Range(gn_args)

\* C11: the composed argument list is a function of the command line, the
\* platform and the override file alone: in every run, whatever the
\* workspace held and whichever stages were skipped, it is the same list.
DeterminedArgs ==
  ComputedArgs(args, is_windows)
    \o (IF args.gn_args_file /\ file.exists THEN ExpectedOverrides ELSE <<>>)

C11_ArgsDetermined == ArgsComposed => gn_args = DeterminedArgs

C11_Witness ==
  /\ ArgsComposed
  /\ skipped = {"depot_tools", "src"} /\ "out" \in fs_before
  /\ args.v8_fork_url /\ args.gn_args_file /\ file.exists
  /\ Len(gn_args) > Len(ComputedArgs(args, is_windows))

\* C12: an override path that names no file changes nothing: the step that
\* reads overrides goes on to build-file generation with the arguments
\* unchanged and without exit or teardown, the final list is the computed
\* one, and a nonzero exit of such a run comes from a failed command.
MissingOverride == prog = "v8" /\ args.gn_args_file /\ ~file.exists

C12_MissingOverrideNonFatal ==
  /\ []((MissingOverride /\ ArgsComposed) =>
          gn_args = ComputedArgs(args, is_windows))
  /\ []((MissingOverride /\ Terminated /\ exit_status # 0) =>
          (SomeStageFailed \/ diag = "not_admin"))
  /\ [][(MissingOverride /\ pc = "read_overrides") =>
          (pc' = "gn gen" /\ gn_args' = gn_args /\ exit_status' = -1
             /\ ~cleaned')]_vars

C12_Witness ==
  /\ MissingOverride /\ Terminated /\ exit_status = 0
  /\ launched[Len(launched)] = "ninja"
  /\ "gn gen" \in Range(launched)

\* C13: with a fork configured, the command launched after the probe is
\* set-url when the probe exited 0 and add when it exited nonzero, never
\* both; then come the fetch from the fork and the checkout of the
\* revision; no outcome of the probe ends the run at the probe.
Count(cmd) == Cardinality({j \in 1..Len(launched) : launched[j] = cmd})

Follows(i, cmd) ==
  /\ Len(launched) > i => launched[i + 1] = cmd
  /\ (Len(launched) = i /\ proc = "idle") => pc = cmd

ProbeDecidesBranch ==
  \A i \in 1..Len(results) :
    /\ (launched[i] = "git remote get-url" /\ results[i].kind = "ok") =>
         /\ Follows(i, "git remote set-url")
         /\ Count("git remote add") = 0
         /\ Count("git remote set-url") <= 1
    /\ (launched[i] = "git remote get-url" /\ results[i].kind = "fail") =>
         /\ Follows(i, "git remote add")
         /\ Count("git remote set-url") = 0
         /\ Count("git remote add") <= 1
    /\ (launched[i] \in {"git remote set-url", "git remote add"}
          /\ results[i].kind = "ok") => Follows(i, "git fetch fork")
    /\ (launched[i] = "git fetch fork" /\ results[i].kind = "ok") =>
         Follows(i, "git checkout fork")

C13_ProbeNonFatal ==
  /\ ProbeDecidesBranch
  /\ \A i \in 1..Len(results) :
       (launched[i] = "git remote get-url" /\ results[i] # Interrupted) =>
         ~(Terminated /\ Len(launched) = i)

\* C14: for every command run by run_command, a missing executable is
\* fatal and is reported otherwise than a command that ran and exited
\* nonzero (which is reported as "command_failed").
ByRunCommand(cmd) ==
  prog = "cdp" \/ cmd \notin {"git remote get-url", "gn gen"}

C14_NotFoundDistinct ==
  \A i \in 1..Len(results) :
    (results[i].kind = "notfound" /\ ByRunCommand(launched[i])) =>
      /\ Len(launched) = i
      /\ pc \in {"finally", "done"}
      /\ diag # "command_failed"

\* C15: the search path is composed once, after the bootstrap checkout, with
\* the depot_tools directory first; every command launched from then on
\* sees that same path; and the script's own environment map keeps the
\* value it was started with.
Composed == <<"depot_tools">> \o <<"inherited">>

EnvComposedOnce ==
  \A i \in 1..Len(launched) :
    /\ StageOf(launched[i]) >= 2 =>
         /\ launch_env[i] = Composed
         /\ \/ "depot_tools" \in fs_before
            \/ \E j \in 1..(i - 1) :
                 launched[j] = "git clone" /\ results[j].kind = "ok"
    /\ StageOf(launched[i]) <= 1 => launch_env[i] = <<"inherited">>

C15_HostEnvironmentKept ==
  /\ EnvComposedOnce
  /\ environ_PATH = <<"inherited">>

\* C16: an interruption of a running command ends the run at that command:
\* nothing is launched after it, and the run ends with the workspace root
\* removed and a nonzero exit status.
C16_InterruptTakesFailurePath ==
  \A i \in 1..Len(results) :
    results[i] = Interrupted =>
      /\ Len(launched) = i
      /\ Terminated => ("root" \notin fs /\ exit_status # 0)

\* C17: in cdp_frontend.py, a run that started on an existing workspace root
\* and had any command fail ends with nothing of that workspace left, whatever
\* it held before the run and however early the failure.
CommandFailed == \E i \in 1..Len(results) : results[i].kind # "ok"

C17_TeardownRemovesPreexisting ==
  (prog = "cdp" /\ "root" \in fs_before /\ CommandFailed /\ Terminated) =>
    (fs = {} /\ cleaned /\ exit_status = 1)

C17_Witness ==
  /\ prog = "cdp" /\ Terminated
  /\ fs_before = Dirs("cdp")
  /\ launched = <<"git --version">> /\ results[1].kind = "fail"
  /\ fs = {}

\* C18: on a workspace where both marker directories already exist, the
\* commands launched are those of a first run, in the same order, without
\* the bootstrap clone and the source fetch: a run that succeeds has
\* launched each of the others exactly once, a run that fails has launched
\* a prefix of them.
FirstRun(remote) ==
  IF prog = "cdp"
  THEN <<"git --version", "npm --version", "git clone", "which gclient",
         "which fetch", "which npm", "which gn", "which autoninja",
         "fetch devtools-frontend", "npm install", "gn gen", "autoninja">>
  ELSE <<"git clone", "gclient", "fetch v8">>
         \o (IF args.v8_fork_url
             THEN <<"git remote get-url", remote, "git fetch fork",
                    "git checkout fork">>
             ELSE <<"git checkout tag">>)
         \o <<"gclient sync", "gn gen", "ninja">>

NotCloneOrFetch(cmd) ==
  cmd \notin {"git clone", "fetch v8", "fetch devtools-frontend"}

ReRun(remote) == SelectSeq(FirstRun(remote), NotCloneOrFetch)

IsPrefix(s, t) == Len(s) <= Len(t) /\ s = SubSeq(t, 1, Len(s))

Succeeded ==
  Terminated /\ (IF prog = "cdp" THEN build_succeeded ELSE exit_status = 0)

AllMarkersExist == {"depot_tools", "src"} \subseteq fs_before

C18_RerunSkipsOnlyCloneAndFetch ==
  \E remote \in {"git remote set-url", "git remote add"} :
    /\ AllMarkersExist =>
         /\ IsPrefix(launched, ReRun(remote))
         /\ Succeeded => launched = ReRun(remote)
    /\ (fs_before = {} /\ Succeeded) => launched = FirstRun(remote)

C18_Witness ==
  /\ prog = "v8" /\ AllMarkersExist /\ Succeeded
  /\ launched = <<"gclient", "git checkout tag", "gclient sync", "gn gen",
                  "ninja">>

====
